---- MODULE Spec2Model ----
(***************************************************************************)
(* The two-station sequencer of LegrandPCBv17/backend/sequencer.py as a    *)
(* state machine: the worker thread (Sequencer._worker with                *)
(* _run_micro_plan inlined), the control surface (start_seq_worker, stop,  *)
(* pause, resume, reset), the adapter's notifications (on_backend_event)   *)
(* and the verdict entry point (external_test_complete), each thread       *)
(* taking one step at a time between its accesses to shared fields.        *)
(***************************************************************************)
EXTENDS Integers, Sequences, FiniteSets, TLC

\* Largest tray size (SequencerConfig.total_slots1/2) the model explores.
MaxSlots == 1

\* Machine 1 and machine 2: the source writes every field and branch twice.
Stations == {1, 2}

VARIABLES
    total_slots,    \* cfg.total_slots1/2
    commready,      \* tester_commready1/2
    result,         \* tester_result1/2
    operating,      \* tester_operating1/2
    loaded,         \* tester_loaded1/2
    awaiting,       \* awaiting_result1/2
    done_evt,       \* tester_done_evt1/2
    current_slot,   \* current_slot1/2
    stop_flag,      \* _stop_flag
    user_pause,     \* _user_pause
    plan_done_evt,  \* _plan_done_evt
    fault_evt,      \* _fault_evt
    wpc,            \* where the worker thread is ("off": no live worker)
    wst,            \* the machine whose block the worker is in
    wplan,          \* the plan _run_micro_plan was called with
    progressed,     \* the worker's local "progressed"
    lpc,            \* where each caller of external_test_complete is
    serial_th,      \* _serial1_th/_serial2_th with _halt_serial1/2 (see start_listener)
    handle,         \* _serial1_handle/_serial2_handle is an open port
    adapter,        \* the adapter: "idle", "executing" a plan, or "stopping" it
    ev,             \* history: what the last step did
    hist,           \* history: plans requested per machine by the live worker
    unitVerdict     \* history: this run accepted a verdict since the machine's last close

stationVars == <<commready, result, operating, loaded, awaiting, done_evt, current_slot>>
ctlVars == <<stop_flag, user_pause, plan_done_evt, fault_evt>>
workerVars == <<wpc, wst, wplan, progressed>>
listenerVars == <<lpc, serial_th, handle>>
histVars == <<ev, hist, unitVerdict>>
vars == <<total_slots, stationVars, ctlVars, workerVars, listenerVars, adapter, histVars>>

---------------------------------------------------------------------------
(* Python values: None, or a str kept as the sequence of its characters.   *)

None == [isStr |-> FALSE, s |-> <<>>]

Str(x) == [isStr |-> TRUE, s |-> x]

IsSpace(c) == c \in {" ", "\n", "\t", "\r"}

UpperChar(c) ==
    CASE c = "p" -> "P" [] c = "a" -> "A" [] c = "s" -> "S"
      [] c = "f" -> "F" [] c = "i" -> "I" [] c = "l" -> "L"
      [] c = "e" -> "E" [] c = "d" -> "D"
      [] OTHER -> c

\* str.upper()
Upper(x) == [i \in 1..Len(x) |-> UpperChar(x[i])]

\* str.strip()
Strip(x) ==
    LET keep == {i \in 1..Len(x) : ~IsSpace(x[i])}
        lo == CHOOSE i \in keep : \A j \in keep : i <= j
        hi == CHOOSE i \in keep : \A j \in keep : i >= j
    IN  IF keep = {} THEN <<>> ELSE SubSeq(x, lo, hi)

\* sub in x
Contains(x, sub) ==
    \E i \in 1..(Len(x) - Len(sub) + 1) : SubSeq(x, i, i + Len(sub) - 1) = sub

PASS == <<"P", "A", "S", "S">>

FAIL == <<"F", "A", "I", "L">>

\* The first two lines of external_test_complete as they would be if "FAIL"
\* were looked for before "PASS"; VerdictByFirstMatch tells the two apart.
NormalizeVerdict_fail_first(verdict) ==
    LET v == Upper(Strip(IF verdict.isStr THEN verdict.s ELSE <<>>))
    IN  IF Contains(v, FAIL) THEN FAIL
        ELSE IF Contains(v, PASS) THEN PASS
        ELSE v

\* external_test_complete, its first two lines: the value it will store.
NormalizeVerdict(verdict) ==
    LET v == Upper(Strip(IF verdict.isStr THEN verdict.s ELSE <<>>))
    IN  IF Contains(v, PASS) THEN PASS
        ELSE IF Contains(v, FAIL) THEN FAIL
        ELSE v

\* The tokens a tester sends in the model: a PASS, a FAIL and Scenario D's.
Tokens ==
    { Str(<<" ", "p", "a", "s", "s">>),
      Str(<<"F", "A", "I", "L", "E", "D">>),
      Str(<<"E", "R", "R", "O", "R", "_", "9">>) }

---------------------------------------------------------------------------
(* Plans and history records.                                              *)

NoPlan == [st |-> 0, kind |-> "none", slot |-> 0]

\* plan_pick1(slot) / plan_pick2(slot)
PickPlan(s, slot) == [st |-> s, kind |-> "pick", slot |-> slot]

\* plan_close / plan_open / plan_place_pass / plan_place_fail of machine s
FixedPlan(s, kind) == [st |-> s, kind |-> kind, slot |-> 0]

\* What hist keeps of a requested plan: its step in the machine's cycle and,
\* for a pick, the slot; which of the two place plans it was is in ev.
HistEntry(plan) ==
    IF plan.kind \in {"place_pass", "place_fail"} THEN <<"place", 0>>
    ELSE <<plan.kind, plan.slot>>

Tau == [op |-> "tau", st |-> 0, kind |-> "none"]

Ev(op, s, kind) == [op |-> op, st |-> s, kind |-> kind]

---------------------------------------------------------------------------
(* The listener thread of a machine and its halt event, as one value:      *)
(*   "init"     the thread __init__ started is alive, _halt_serial is None *)
(*   "gone"     that thread has ended, _halt_serial is still None          *)
(*   "up"       a thread is alive and its halt event is clear              *)
(*   "halting"  a thread is alive and its halt event is set                *)
(*   "down"     the thread has ended, its halt event is set                *)

\* start_listener: a new event and a new thread unless a thread is alive.
start_listener(th) == IF th \in {"gone", "down"} THEN "up" ELSE th

\* stop_listener: sets the halt event if there is one.
stop_listener(th) == IF th = "up" THEN "halting" ELSE th

---------------------------------------------------------------------------
(* Construction.                                                           *)

\* start_seq_worker's total_slots argument when the caller gives none.
NoArg == -1

\* The arguments the control surface starts a run with: the caller gives
\* no slot count, the profile's sizes stay in force.
StartArgs == {NoArg}

Init ==
    /\ total_slots \in [Stations -> 0..MaxSlots]
    /\ commready = [s \in Stations |-> FALSE]
    /\ result = [s \in Stations |-> None]
    /\ operating = [s \in Stations |-> FALSE]
    /\ loaded = [s \in Stations |-> FALSE]
    /\ awaiting = [s \in Stations |-> FALSE]
    /\ done_evt = [s \in Stations |-> FALSE]
    /\ current_slot = [s \in Stations |-> 1]
    /\ stop_flag = FALSE
    /\ user_pause = FALSE
    /\ plan_done_evt = FALSE
    /\ fault_evt = FALSE
    /\ wpc = "off"
    /\ wst = 1
    /\ wplan = NoPlan
    /\ progressed = FALSE
    /\ lpc = [s \in Stations |-> "idle"]
    /\ serial_th = [s \in Stations |-> "init"]
    /\ handle = [s \in Stations |-> FALSE]
    /\ adapter = "idle"
    /\ ev = Tau
    /\ hist = [s \in Stations |-> <<>>]
    /\ unitVerdict = [s \in Stations |-> FALSE]

---------------------------------------------------------------------------
(* The control surface.                                                    *)

\* reset() as it would be without "self.tester_loaded1 = False" and
\* "self.tester_loaded2 = False"; RollbackOnExit tells the two apart.
reset_keeps_loaded ==
    /\ plan_done_evt' = FALSE
    /\ fault_evt' = FALSE
    /\ user_pause' = FALSE
    /\ stop_flag' = FALSE
    /\ done_evt' = [s \in Stations |-> FALSE]
    /\ result' = [s \in Stations |-> None]
    /\ operating' = [s \in Stations |-> FALSE]
    /\ current_slot' = [s \in Stations |-> 1]
    /\ UNCHANGED <<loaded, awaiting, commready>>

\* Sequencer.reset: the fields it assigns; awaiting_result1/2 and
\* tester_commready1/2 are not among them.
reset ==
    /\ plan_done_evt' = FALSE
    /\ fault_evt' = FALSE
    /\ user_pause' = FALSE
    /\ stop_flag' = FALSE
    /\ done_evt' = [s \in Stations |-> FALSE]
    /\ result' = [s \in Stations |-> None]
    /\ operating' = [s \in Stations |-> FALSE]
    /\ loaded' = [s \in Stations |-> FALSE]
    /\ current_slot' = [s \in Stations |-> 1]
    /\ UNCHANGED <<awaiting, commready>>

\* reset() called by the operator, who calls it only once the worker is dead.
Reset ==
    /\ wpc = "off"
    /\ reset
    /\ ev' = Ev("reset", 0, "none")
    /\ UNCHANGED <<total_slots, workerVars, listenerVars, adapter, hist, unitVerdict>>

\* start_seq_worker as it would be without its "already running" test;
\* AtMostOneWorker tells the two apart.
start_seq_worker_no_alive_test(n) ==
    /\ total_slots' = IF n = NoArg THEN total_slots ELSE [s \in Stations |-> n]
    /\ stop_flag' = FALSE
    /\ wpc' = "begin"
    /\ ev' = Ev("start", 0, "none")
    /\ hist' = [s \in Stations |-> <<>>]
    /\ unitVerdict' = [s \in Stations |-> FALSE]
    /\ serial_th' = [s \in Stations |-> start_listener(serial_th[s])]
    /\ UNCHANGED <<stationVars, user_pause, plan_done_evt, fault_evt,
                   wst, wplan, progressed, lpc, handle, adapter>>

\* Sequencer.start_seq_worker
start_seq_worker(n) ==
    /\ total_slots' = IF n = NoArg THEN total_slots ELSE [s \in Stations |-> n]
    /\ IF wpc # "off"
       THEN /\ ev' = Tau
            /\ UNCHANGED <<stationVars, ctlVars, workerVars, listenerVars, adapter,
                           hist, unitVerdict>>
       ELSE /\ stop_flag' = FALSE
            /\ wpc' = "begin"
            /\ ev' = Ev("start", 0, "none")
            /\ hist' = [s \in Stations |-> <<>>]
            /\ unitVerdict' = [s \in Stations |-> FALSE]
            /\ serial_th' = [s \in Stations |-> start_listener(serial_th[s])]
            /\ UNCHANGED <<stationVars, user_pause, plan_done_evt, fault_evt,
                           wst, wplan, progressed, lpc, handle, adapter>>

\* stop() as it would be if it pulsed the done event (set it when clear,
\* clear it when set); StopIdempotent tells the two apart.
stop_pulses_done ==
    /\ stop_flag' = TRUE
    /\ plan_done_evt' = ~plan_done_evt
    /\ fault_evt' = TRUE
    /\ serial_th' = [s \in Stations |-> stop_listener(serial_th[s])]
    /\ ev' = Tau
    /\ UNCHANGED <<total_slots, stationVars, user_pause, workerVars, lpc, handle,
                   adapter, hist, unitVerdict>>

\* Sequencer.stop
stop ==
    /\ stop_flag' = TRUE
    /\ plan_done_evt' = TRUE
    /\ fault_evt' = TRUE
    /\ serial_th' = [s \in Stations |-> stop_listener(serial_th[s])]
    /\ ev' = Tau
    /\ UNCHANGED <<total_slots, stationVars, user_pause, workerVars, lpc, handle,
                   adapter, hist, unitVerdict>>

\* Sequencer.pause
pause ==
    /\ user_pause' = TRUE
    /\ ev' = Tau
    /\ UNCHANGED <<total_slots, stationVars, stop_flag, plan_done_evt, fault_evt,
                   workerVars, listenerVars, adapter, hist, unitVerdict>>

\* Sequencer.resume
resume ==
    /\ user_pause' = FALSE
    /\ ev' = Tau
    /\ UNCHANGED <<total_slots, stationVars, stop_flag, plan_done_evt, fault_evt,
                   workerVars, listenerVars, adapter, hist, unitVerdict>>

---------------------------------------------------------------------------
(* The adapter's notifications, delivered through on_backend_event.        *)

\* The worker is inside _run_micro_plan's wait loop.
Polling == wpc = "poll"

\* on_backend_event(STOPPED, _): the plan in flight completed or was stopped.
on_backend_stopped ==
    /\ adapter # "idle"
    /\ adapter' = "idle"
    /\ plan_done_evt' = TRUE
    /\ ev' = Tau
    /\ UNCHANGED <<total_slots, stationVars, stop_flag, user_pause, fault_evt,
                   workerVars, listenerVars, hist, unitVerdict>>

\* on_backend_event(FAULT, payload). A notification that arrives outside the
\* wait loop is erased by the clear() that opens the next _run_micro_plan.
on_backend_fault(payload) ==
    /\ Polling
    /\ fault_evt' = payload
    /\ ev' = Tau
    /\ UNCHANGED <<total_slots, stationVars, stop_flag, user_pause, plan_done_evt,
                   workerVars, listenerVars, adapter, hist, unitVerdict>>

---------------------------------------------------------------------------
(* external_test_complete(machine_id, verdict), one caller per machine.    *)

\* external_test_complete as it would be without the "not awaiting" test;
\* StaleVerdictIgnored tells the two apart.
external_test_complete_unguarded(s, verdict) ==
    /\ lpc[s] = "idle"
    /\ awaiting' = [awaiting EXCEPT ![s] = FALSE]
    /\ result' = [result EXCEPT ![s] = Str(NormalizeVerdict(verdict))]
    /\ done_evt' = [done_evt EXCEPT ![s] = TRUE]
    /\ unitVerdict' = [unitVerdict EXCEPT ![s] = (wpc # "off")]
    /\ lpc' = [lpc EXCEPT ![s] = "set_oper"]
    /\ ev' = Ev(IF awaiting[s] THEN "accepted" ELSE "ignored", s, "none")
    /\ UNCHANGED <<total_slots, commready, operating, loaded,
                   current_slot, ctlVars, workerVars, adapter, hist, serial_th, handle>>

\* The "not awaiting" test; when it passes, awaiting_result = False,
\* tester_result = v and tester_done_evt.set(). The worker never reads
\* awaiting_result, and it cannot tell a result stored before the event is
\* set from one stored with it, so the three writes are taken in one step.
external_test_complete(s, verdict) ==
    /\ lpc[s] = "idle"
    /\ IF ~awaiting[s]
       THEN /\ ev' = Ev("ignored", s, "none")
            /\ UNCHANGED <<awaiting, result, done_evt, unitVerdict, lpc>>
       ELSE /\ awaiting' = [awaiting EXCEPT ![s] = FALSE]
            /\ result' = [result EXCEPT ![s] = Str(NormalizeVerdict(verdict))]
            /\ done_evt' = [done_evt EXCEPT ![s] = TRUE]
            /\ unitVerdict' = [unitVerdict EXCEPT ![s] = (wpc # "off")]
            /\ lpc' = [lpc EXCEPT ![s] = "set_oper"]
            /\ ev' = Ev("accepted", s, "none")
    /\ UNCHANGED <<total_slots, commready, operating, loaded,
                   current_slot, ctlVars, workerVars, adapter, hist, serial_th, handle>>

\* tester_operating = False
etc_set_oper(s) ==
    /\ lpc[s] = "set_oper"
    /\ operating' = [operating EXCEPT ![s] = FALSE]
    /\ lpc' = [lpc EXCEPT ![s] = "idle"]
    /\ ev' = Tau
    /\ UNCHANGED <<total_slots, commready, result, loaded, awaiting, done_evt,
                   current_slot, ctlVars, workerVars, adapter, hist, unitVerdict,
                   serial_th, handle>>

---------------------------------------------------------------------------
(* Sequencer._worker. A step runs from one access to state that another    *)
(* thread writes to the next; reads that no interleaved write can tell     *)
(* apart from a read taken a moment earlier or later share a step.         *)

\* The guard of "MACHINE s: UNLOAD on result".
UnloadGuard(s) ==
    /\ commready[s]
    /\ ~progressed
    /\ ~operating[s]
    /\ loaded[s]
    /\ result[s].isStr

\* The load guard with "<= total_slots + 1" for "<= total_slots";
\* EmptyTrayNoPlans tells the two apart.
LoadGuard_one_more(s) ==
    /\ commready[s]
    /\ ~progressed
    /\ ~operating[s]
    /\ ~loaded[s]
    /\ current_slot[s] <= total_slots[s] + 1

\* The load guard without its tester_commready conjunct; CommDownSkipped
\* tells the two apart.
LoadGuard_any_comm(s) ==
    /\ ~progressed
    /\ ~operating[s]
    /\ ~loaded[s]
    /\ current_slot[s] <= total_slots[s]

\* The guard of "MACHINE s: LOAD next PCB if idle & slots remain".
LoadGuard(s) ==
    /\ commready[s]
    /\ ~progressed
    /\ ~operating[s]
    /\ ~loaded[s]
    /\ current_slot[s] <= total_slots[s]

\* m_done as it would be if a machine that is not comm-ready counted as
\* done; CommDownNeverDrained tells the two apart.
MachineDone_or_comm_down(s) ==
    \/ ~commready[s]
    \/ /\ current_slot[s] > total_slots[s]
       /\ ~loaded[s]
       /\ ~operating[s]

\* m1_done / m2_done
MachineDone(s) ==
    /\ current_slot[s] > total_slots[s]
    /\ ~loaded[s]
    /\ ~operating[s]

\* The blocks with machine 2's before machine 1's; FixedScanOrder tells the
\* two orders apart.
Blocks_machine2_first == << <<2, "unload">>, <<2, "load">>, <<1, "unload">>, <<1, "load">> >>

\* The blocks of one pass in source order: machine 1 unload, machine 1
\* load, machine 2 unload, machine 2 load.
Blocks == << <<1, "unload">>, <<1, "load">>, <<2, "unload">>, <<2, "load">> >>

BlockGuard(b) == IF b[2] = "unload" THEN UnloadGuard(b[1]) ELSE LoadGuard(b[1])

\* Thread entry: _test_comms() pings both testers, whose handles may or may
\* not be open; current_slot1/2 keep the value reset() left.
worker_begin ==
    /\ wpc = "begin"
    /\ commready' \in [Stations -> BOOLEAN]
    /\ wpc' = "tick"
    /\ ev' = Tau
    /\ UNCHANGED <<total_slots, result, operating, loaded, awaiting, done_evt,
                   current_slot, ctlVars, wst, wplan, progressed, listenerVars,
                   adapter, hist, unitVerdict>>

\* The stop check as it would be if it first let the running tests end;
\* StopEndsVerdictWait tells the two apart.
worker_tick_stopped_after_tests ==
    /\ wpc = "tick"
    /\ stop_flag
    /\ \A s \in Stations : ~operating[s]
    /\ wpc' = "finally"
    /\ ev' = Ev("stop_seen", 0, "none")
    /\ UNCHANGED <<total_slots, stationVars, ctlVars, wst, wplan, progressed,
                   listenerVars, adapter, hist, unitVerdict>>

\* The stop check as it would be if the pause wait did not read the stop
\* flag; StopPreemptsPause tells the two apart.
worker_tick_stopped_unpaused ==
    /\ wpc = "tick"
    /\ stop_flag
    /\ ~user_pause
    /\ wpc' = "finally"
    /\ ev' = Ev("stop_seen", 0, "none")
    /\ UNCHANGED <<total_slots, stationVars, ctlVars, wst, wplan, progressed,
                   listenerVars, adapter, hist, unitVerdict>>

\* while not self._stop_flag: _wait_if_user_paused(); if self._stop_flag: break
\* The worker sleeps in _wait_if_user_paused while paused and not stopped.
worker_tick_stopped ==
    /\ wpc = "tick"
    /\ stop_flag
    /\ wpc' = "finally"
    /\ ev' = Ev("stop_seen", 0, "none")
    /\ UNCHANGED <<total_slots, stationVars, ctlVars, wst, wplan, progressed,
                   listenerVars, adapter, hist, unitVerdict>>

\* The start of a pass as it would be if the loop waited for the running
\* tests; StationsIndependent tells the two apart.
worker_tick_waits_for_tests ==
    /\ wpc = "tick"
    /\ ~stop_flag
    /\ ~user_pause
    /\ \A s \in Stations : operating[s] => done_evt[s]
    /\ progressed' = FALSE
    /\ operating' = [s \in Stations |-> IF done_evt[s] THEN FALSE ELSE operating[s]]
    /\ done_evt' = [s \in Stations |-> FALSE]
    /\ wpc' = "scan"
    /\ ev' = Tau
    /\ UNCHANGED <<total_slots, commready, result, loaded, awaiting, current_slot,
                   ctlVars, wst, wplan, listenerVars, adapter, hist, unitVerdict>>

\* The pass begins: progressed = False, then both testers' completions are
\* absorbed (done event cleared, tester_operating = False).
worker_tick ==
    /\ wpc = "tick"
    /\ ~stop_flag
    /\ ~user_pause
    /\ progressed' = FALSE
    /\ done_evt' = [s \in Stations |-> FALSE]
    /\ operating' = [s \in Stations |-> IF done_evt[s] THEN FALSE ELSE operating[s]]
    /\ wpc' = "scan"
    /\ ev' = Tau
    /\ UNCHANGED <<total_slots, commready, result, loaded, awaiting, current_slot,
                   ctlVars, wst, wplan, listenerVars, adapter, hist, unitVerdict>>

\* The four guarded blocks: the first whose guard holds runs its first plan.
worker_scan ==
    /\ wpc = "scan"
    /\ \E i \in 1..Len(Blocks) :
          /\ BlockGuard(Blocks[i])
          /\ \A j \in 1..(i - 1) : ~BlockGuard(Blocks[j])
          /\ wst' = Blocks[i][1]
          /\ wplan' = IF Blocks[i][2] = "unload"
                      THEN FixedPlan(Blocks[i][1], "open")
                      ELSE PickPlan(Blocks[i][1], current_slot[Blocks[i][1]])
    /\ wpc' = "run"
    /\ ev' = Tau
    /\ UNCHANGED <<total_slots, stationVars, ctlVars, progressed, listenerVars,
                   adapter, hist, unitVerdict>>

\* No block ran, or one ran to its end: exit when both machines are fully
\* done, else (after a short sleep if nothing progressed) the next pass.
worker_exit_check ==
    /\ wpc = "scan"
    /\ \A i \in 1..Len(Blocks) : ~BlockGuard(Blocks[i])
    /\ IF \A s \in Stations : MachineDone(s)
       THEN /\ wpc' = "finally"
            /\ ev' = Ev("all_done", 0, "none")
       ELSE /\ wpc' = "tick"
            /\ ev' = Tau
    /\ UNCHANGED <<total_slots, stationVars, ctlVars, wst, wplan, progressed,
                   listenerVars, adapter, hist, unitVerdict>>

\* The verdict test with its two place plans exchanged; PlaceByVerdict
\* tells the two apart.
worker_verdict_swapped ==
    /\ wpc = "verdict"
    /\ LET verdict == IF result[wst].isStr THEN Upper(Strip(result[wst].s)) ELSE <<>>
       IN  IF result[wst].isStr /\ verdict = PASS
           THEN /\ wpc' = "run"
                /\ wplan' = FixedPlan(wst, "place_fail")
                /\ ev' = Tau
           ELSE IF result[wst].isStr /\ verdict = FAIL
           THEN /\ wpc' = "run"
                /\ wplan' = FixedPlan(wst, "place_pass")
                /\ ev' = Tau
           ELSE /\ wpc' = "finally"
                /\ wplan' = NoPlan
                /\ ev' = Ev("invalid", wst, "none")
    /\ UNCHANGED <<total_slots, stationVars, ctlVars, wst, progressed, listenerVars,
                   adapter, hist, unitVerdict>>

\* verdict = tester_result.strip().upper() and the choice of the place plan;
\* any other value is logged as invalid and breaks out of the loop.
worker_verdict ==
    /\ wpc = "verdict"
    /\ LET verdict == IF result[wst].isStr THEN Upper(Strip(result[wst].s)) ELSE <<>>
       IN  IF result[wst].isStr /\ verdict = PASS
           THEN /\ wpc' = "run"
                /\ wplan' = FixedPlan(wst, "place_pass")
                /\ ev' = Tau
           ELSE IF result[wst].isStr /\ verdict = FAIL
           THEN /\ wpc' = "run"
                /\ wplan' = FixedPlan(wst, "place_fail")
                /\ ev' = Tau
           ELSE /\ wpc' = "finally"
                /\ wplan' = NoPlan
                /\ ev' = Ev("invalid", wst, "none")
    /\ UNCHANGED <<total_slots, stationVars, ctlVars, wst, progressed, listenerVars,
                   adapter, hist, unitVerdict>>

\* The bookkeeping after a place without "tester_loaded = False";
\* ScenarioATerminates tells the two apart.
worker_post_unload_keeps_loaded ==
    /\ wpc = "post_unload"
    /\ result' = [result EXCEPT ![wst] = None]
    /\ progressed' = TRUE
    /\ wpc' = "scan"
    /\ ev' = Ev("unloaded", wst, "none")
    /\ unitVerdict' = [unitVerdict EXCEPT ![wst] = FALSE]
    /\ UNCHANGED <<total_slots, commready, operating, loaded, awaiting, done_evt,
                   current_slot, ctlVars, wst, wplan, listenerVars, adapter, hist>>

\* After placing: tester_loaded = False; tester_result = None; progressed = True
worker_post_unload ==
    /\ wpc = "post_unload"
    /\ loaded' = [loaded EXCEPT ![wst] = FALSE]
    /\ result' = [result EXCEPT ![wst] = None]
    /\ progressed' = TRUE
    /\ wpc' = "scan"
    /\ ev' = Ev("unloaded", wst, "none")
    /\ unitVerdict' = [unitVerdict EXCEPT ![wst] = FALSE]
    /\ UNCHANGED <<total_slots, commready, operating, awaiting, done_evt, current_slot,
                   ctlVars, wst, wplan, listenerVars, adapter, hist>>

\* After closing: awaiting_result = True
worker_post_load_await ==
    /\ wpc = "post_load"
    /\ awaiting' = [awaiting EXCEPT ![wst] = TRUE]
    /\ wpc' = "post_load2"
    /\ ev' = Tau
    /\ UNCHANGED <<total_slots, commready, result, operating, loaded, done_evt,
                   current_slot, ctlVars, wst, wplan, progressed, listenerVars, adapter,
                   hist, unitVerdict>>

\* The bookkeeping after a close without "progressed = True";
\* OneTransitionPerTick tells the two apart.
worker_post_load_no_progress ==
    /\ wpc = "post_load2"
    /\ current_slot' = [current_slot EXCEPT ![wst] = @ + 1]
    /\ operating' = [operating EXCEPT ![wst] = TRUE]
    /\ loaded' = [loaded EXCEPT ![wst] = TRUE]
    /\ wpc' = "scan"
    /\ ev' = Ev("loaded", wst, "none")
    /\ UNCHANGED <<total_slots, commready, result, awaiting, done_evt, ctlVars, wst,
                   wplan, progressed, listenerVars, adapter, hist, unitVerdict>>

\* current_slot += 1; tester_operating = True; tester_loaded = True; progressed = True
worker_post_load ==
    /\ wpc = "post_load2"
    /\ current_slot' = [current_slot EXCEPT ![wst] = @ + 1]
    /\ operating' = [operating EXCEPT ![wst] = TRUE]
    /\ loaded' = [loaded EXCEPT ![wst] = TRUE]
    /\ progressed' = TRUE
    /\ wpc' = "scan"
    /\ ev' = Ev("loaded", wst, "none")
    /\ UNCHANGED <<total_slots, commready, result, awaiting, done_evt, ctlVars, wst,
                   wplan, listenerVars, adapter, hist, unitVerdict>>

\* finally: stop_listener(1); stop_listener(2); self.reset(); self._th = None
worker_finally ==
    /\ wpc = "finally"
    /\ serial_th' = [s \in Stations |-> stop_listener(serial_th[s])]
    /\ reset
    /\ wpc' = "off"
    /\ wst' = 1
    /\ wplan' = NoPlan
    /\ progressed' = FALSE
    /\ ev' = Ev("worker_exit", 0, "none")
    /\ hist' = [s \in Stations |-> <<>>]
    /\ unitVerdict' = [s \in Stations |-> FALSE]
    /\ UNCHANGED <<total_slots, lpc, handle, adapter>>

---------------------------------------------------------------------------
(* Sequencer._run_micro_plan(wplan, plan_timeout_s), called by the worker. *)

\* The True returns as they would be treated by a load block without its
\* close plan; LoadAfterPickAndClose tells the two apart.
PlanSucceeded_skips_close ==
    CASE wplan.kind = "open" ->
            /\ wpc' = "verdict" /\ wplan' = NoPlan /\ UNCHANGED unitVerdict
      [] wplan.kind \in {"place_pass", "place_fail"} ->
            /\ wpc' = "post_unload" /\ wplan' = NoPlan /\ UNCHANGED unitVerdict
      [] wplan.kind \in {"pick", "close"} ->
            /\ wpc' = "post_load" /\ wplan' = NoPlan
            /\ unitVerdict' = [unitVerdict EXCEPT ![wst] = FALSE]

\* What the worker does with a True return, by the plan that returned it.
PlanSucceeded ==
    CASE wplan.kind = "open" ->
            /\ wpc' = "verdict" /\ wplan' = NoPlan /\ UNCHANGED unitVerdict
      [] wplan.kind \in {"place_pass", "place_fail"} ->
            /\ wpc' = "post_unload" /\ wplan' = NoPlan /\ UNCHANGED unitVerdict
      [] wplan.kind = "pick" ->
            /\ wpc' = "run" /\ wplan' = FixedPlan(wst, "close") /\ UNCHANGED unitVerdict
      [] wplan.kind = "close" ->
            /\ wpc' = "post_load" /\ wplan' = NoPlan
            /\ unitVerdict' = [unitVerdict EXCEPT ![wst] = FALSE]

\* A False return as it would be treated by a worker that tried the plan
\* again; FailureAborts tells the two apart.
PlanFailed_retries ==
    /\ wpc' = "run"
    /\ UNCHANGED <<wplan, unitVerdict>>

\* What the worker does with a False return: break, whatever the plan.
PlanFailed ==
    /\ wpc' = "finally"
    /\ wplan' = NoPlan
    /\ UNCHANGED unitVerdict

\* Both events cleared, then backend.start_plan(plan_name, speed).
run_start_plan ==
    /\ wpc = "run"
    /\ plan_done_evt' = FALSE
    /\ fault_evt' = FALSE
    /\ adapter' = "executing"
    /\ hist' = [hist EXCEPT ![wplan.st] = Append(@, HistEntry(wplan))]
    /\ wpc' = "poll"
    /\ ev' = Ev("start_plan", wplan.st, wplan.kind)
    /\ UNCHANGED <<total_slots, stationVars, stop_flag, user_pause, wst, wplan,
                   progressed, listenerVars, unitVerdict>>

\* speed_fn() or start_plan raised: "start_plan error", return False.
run_start_error ==
    /\ wpc = "run"
    /\ plan_done_evt' = FALSE
    /\ fault_evt' = FALSE
    /\ PlanFailed
    /\ ev' = Ev("start_error", wplan.st, wplan.kind)
    /\ UNCHANGED <<total_slots, stationVars, stop_flag, user_pause, wst, progressed,
                   listenerVars, adapter, hist>>

\* Sequencer._recover: logs that human intervention is required and returns
\* False. No statement of this version calls it.
recover == FALSE

\* The fault test as it would be with an automatic recovery: the fault
\* event cleared and the plan requested again; NoAutoRecovery tells the two
\* apart.
run_poll_fault_recovers ==
    /\ wpc = "poll"
    /\ fault_evt
    /\ fault_evt' = FALSE
    /\ plan_done_evt' = FALSE
    /\ adapter' = "executing"
    /\ hist' = [hist EXCEPT ![wplan.st] = Append(@, HistEntry(wplan))]
    /\ ev' = Ev("plan_fault", wplan.st, wplan.kind)
    /\ UNCHANGED <<total_slots, stationVars, stop_flag, user_pause, workerVars,
                   listenerVars, unitVerdict>>

\* One pass of the wait loop that ends it, first test: the fault event is set.
run_poll_fault ==
    /\ wpc = "poll"
    /\ fault_evt
    /\ PlanFailed
    /\ ev' = Ev("plan_fault", wplan.st, wplan.kind)
    /\ UNCHANGED <<total_slots, stationVars, ctlVars, wst, progressed, listenerVars,
                   adapter, hist>>

\* The done test as it would be if it came before the fault test;
\* FaultPrecedence tells the two apart.
run_poll_done_first ==
    /\ wpc = "poll"
    /\ plan_done_evt
    /\ IF stop_flag
       THEN /\ PlanFailed
            /\ ev' = Ev("plan_stopped", wplan.st, wplan.kind)
       ELSE /\ PlanSucceeded
            /\ ev' = Ev("plan_finished", wplan.st, wplan.kind)
    /\ UNCHANGED <<total_slots, stationVars, ctlVars, wst, progressed, listenerVars,
                   adapter, hist>>

\* Second test: the done event is set; True unless a stop was requested.
run_poll_done ==
    /\ wpc = "poll"
    /\ ~fault_evt
    /\ plan_done_evt
    /\ IF stop_flag
       THEN /\ PlanFailed
            /\ ev' = Ev("plan_stopped", wplan.st, wplan.kind)
       ELSE /\ PlanSucceeded
            /\ ev' = Ev("plan_finished", wplan.st, wplan.kind)
    /\ UNCHANGED <<total_slots, stationVars, ctlVars, wst, progressed, listenerVars,
                   adapter, hist>>

\* The deadline branch without its backend.stop(); TimeoutAborts tells the
\* two apart.
run_poll_timeout_no_stop ==
    /\ wpc = "poll"
    /\ ~fault_evt
    /\ ~plan_done_evt
    /\ PlanFailed
    /\ ev' = Ev("plan_timeout", wplan.st, wplan.kind)
    /\ UNCHANGED <<total_slots, stationVars, ctlVars, wst, progressed, listenerVars,
                   adapter, hist>>

\* Third test: the deadline has passed; backend.stop(), return False.
run_poll_timeout ==
    /\ wpc = "poll"
    /\ ~fault_evt
    /\ ~plan_done_evt
    /\ adapter' = IF adapter = "idle" THEN "idle" ELSE "stopping"
    /\ PlanFailed
    /\ ev' = Ev("plan_timeout", wplan.st, wplan.kind)
    /\ UNCHANGED <<total_slots, stationVars, ctlVars, wst, progressed, listenerVars,
                   hist>>

\* The stop test of the wait loop as it would be if it waited for the
\* adapter to be idle; StopEndsPlanWait tells the two apart.
run_poll_stop_when_idle ==
    /\ wpc = "poll"
    /\ ~fault_evt
    /\ ~plan_done_evt
    /\ stop_flag
    /\ adapter = "idle"
    /\ PlanFailed
    /\ ev' = Ev("plan_stopped", wplan.st, wplan.kind)
    /\ UNCHANGED <<total_slots, stationVars, ctlVars, wst, progressed, listenerVars,
                   adapter, hist>>

\* Fourth test: a stop was requested; return False. Otherwise the loop
\* sleeps 50 ms and takes another pass.
run_poll_stop ==
    /\ wpc = "poll"
    /\ ~fault_evt
    /\ ~plan_done_evt
    /\ stop_flag
    /\ PlanFailed
    /\ ev' = Ev("plan_stopped", wplan.st, wplan.kind)
    /\ UNCHANGED <<total_slots, stationVars, ctlVars, wst, progressed, listenerVars,
                   adapter, hist>>

---------------------------------------------------------------------------
(* The specification.                                                      *)

Worker ==
    \/ worker_begin
    \/ worker_tick_stopped
    \/ worker_tick
    \/ worker_scan
    \/ worker_exit_check
    \/ worker_verdict
    \/ worker_post_unload
    \/ worker_post_load_await
    \/ worker_post_load
    \/ worker_finally
    \/ run_start_plan
    \/ run_start_error
    \/ run_poll_fault
    \/ run_poll_done
    \/ run_poll_timeout
    \/ run_poll_stop

Next ==
    \/ Worker
    \/ \E n \in StartArgs : start_seq_worker(n)
    \/ stop
    \/ pause
    \/ resume
    \/ Reset
    \/ on_backend_stopped
    \/ \E b \in BOOLEAN : on_backend_fault(b)
    \/ \E s \in Stations, t \in Tokens : external_test_complete(s, t)
    \/ \E s \in Stations : etc_set_oper(s)

Spec == Init /\ [][Next]_vars

---------------------------------------------------------------------------
(* Scenario A's environment: no stop, no pause, no fault, no timeout; the   *)
(* adapter finishes every plan and each tester answers once its machine is *)
(* loaded, machine 1's with a PASS and machine 2's with a FAIL.            *)

ScenarioVerdict(s) ==
    IF s = 1 THEN Str(<<" ", "p", "a", "s", "s">>)
    ELSE Str(<<"F", "A", "I", "L", "E", "D">>)

\* The tester of machine s answers for the unit that was loaded.
tester_reply(s) ==
    /\ awaiting[s]
    /\ loaded[s]
    /\ external_test_complete(s, ScenarioVerdict(s))

LiveWorker ==
    \/ worker_begin
    \/ worker_tick
    \/ worker_scan
    \/ worker_exit_check
    \/ worker_verdict
    \/ worker_post_unload
    \/ worker_post_load_await
    \/ worker_post_load
    \/ worker_finally
    \/ run_start_plan
    \/ run_poll_done

LiveNext ==
    \/ LiveWorker
    \/ start_seq_worker(NoArg)
    \/ on_backend_stopped
    \/ \E s \in Stations : tester_reply(s)
    \/ \E s \in Stations : etc_set_oper(s)

\* The worker thread and the listener threads are scheduled, the adapter
\* ends every plan it was given, the testers answer.
LiveSpec ==
    /\ Init
    /\ [][LiveNext]_vars
    /\ WF_vars(LiveWorker)
    /\ WF_vars(on_backend_stopped)
    /\ \A s \in Stations : WF_vars(tester_reply(s)) /\ WF_vars(etc_set_oper(s))

---------------------------------------------------------------------------
(* Stopped runs under fairness of the worker thread alone: the adapter may *)
(* never report, a tester may never answer, the operator may never stop.   *)
(* The operator resets only once the worker is gone, and does not pause.   *)

StopNext ==
    \/ Worker
    \/ start_seq_worker(NoArg)
    \/ stop
    \/ Reset
    \/ on_backend_stopped
    \/ \E s \in Stations : tester_reply(s)
    \/ \E s \in Stations : etc_set_oper(s)

StopSpec ==
    /\ Init
    /\ [][StopNext]_vars
    /\ WF_vars(Worker)

---------------------------------------------------------------------------
(* The control surface used without waiting for the worker to exit, and    *)
(* the listener threads' own steps.                                        *)

\* Most plans a machine may have been asked for when reset() is still called
\* in the middle of a run (such a reset rewinds the slot counters).
MaxRacePlans == 2

\* reset() called from the control surface at any moment.
reset_call ==
    /\ \A s \in Stations : Len(hist[s]) < MaxRacePlans
    /\ reset
    /\ ev' = Ev("reset", 0, "none")
    /\ UNCHANGED <<total_slots, workerVars, listenerVars, adapter, hist, unitVerdict>>

\* _serial_worker leaves its loop, "while halt_evt and not halt_evt.is_set()":
\* at once when _halt_serial was None, else when the event is set.
listener_exit(s) ==
    /\ serial_th[s] \in {"init", "halting"}
    /\ serial_th' = [serial_th EXCEPT ![s] = IF @ = "init" THEN "gone" ELSE "down"]
    /\ handle' = [handle EXCEPT ![s] = FALSE]
    /\ ev' = Tau
    /\ UNCHANGED <<total_slots, stationVars, ctlVars, workerVars, lpc, adapter,
                   hist, unitVerdict>>

RaceNext ==
    \/ Worker
    \/ start_seq_worker(NoArg)
    \/ stop
    \/ reset_call
    \/ pause
    \/ resume
    \/ on_backend_stopped
    \/ \E s \in Stations : tester_reply(s)
    \/ \E s \in Stations : etc_set_oper(s)
    \/ \E s \in Stations : listener_exit(s)

RaceSpec == Init /\ [][RaceNext]_vars

---------------------------------------------------------------------------
(* The control surface giving start_seq_worker a slot count.               *)

\* The values of start_seq_worker's total_slots parameter: none, or a count.
CfgArgs == {NoArg} \cup (0..MaxSlots)

CfgNext ==
    \/ Worker
    \/ \E n \in CfgArgs : start_seq_worker(n)
    \/ stop
    \/ Reset
    \/ on_backend_stopped
    \/ \E s \in Stations : tester_reply(s)
    \/ \E s \in Stations : etc_set_oper(s)

CfgSpec == Init /\ [][CfgNext]_vars

---------------------------------------------------------------------------
(* Testers that send any token to a machine that awaits its verdict.       *)

\* The verdict arguments of external_test_complete in this environment:
\* None, a padded lower-case pass, a FAILED, Scenario D's token, a token
\* that holds both words, and one with no word in it.
NormTokens ==
    Tokens \cup
    { None,
      Str(<<"f", "a", "i", "l", " ", "p", "a", "s", "s">>),
      Str(<<" ", "d", "e", "a", "d", "\n">>) }

\* The tester of machine s sends token t while its verdict is awaited.
tester_send(s, t) ==
    /\ awaiting[s]
    /\ loaded[s]
    /\ external_test_complete(s, t)

NormNext ==
    \/ Worker
    \/ start_seq_worker(NoArg)
    \/ stop
    \/ Reset
    \/ on_backend_stopped
    \/ \E s \in Stations, t \in NormTokens : tester_send(s, t)
    \/ \E s \in Stations : etc_set_oper(s)

NormSpec == Init /\ [][NormNext]_vars

---------------------------------------------------------------------------
(* The load bookkeeping write by write, for what another thread can see    *)
(* between "self.current_slot += 1", "self.tester_operating = True" and    *)
(* "self.tester_loaded = True".                                            *)

\* current_slot += 1
worker_post_load_slot ==
    /\ wpc = "post_load2"
    /\ current_slot' = [current_slot EXCEPT ![wst] = @ + 1]
    /\ wpc' = "post_load3"
    /\ ev' = Tau
    /\ UNCHANGED <<total_slots, commready, result, operating, loaded, awaiting,
                   done_evt, ctlVars, wst, wplan, progressed, listenerVars, adapter,
                   hist, unitVerdict>>

\* tester_operating = True
worker_post_load_oper ==
    /\ wpc = "post_load3"
    /\ operating' = [operating EXCEPT ![wst] = TRUE]
    /\ wpc' = "post_load4"
    /\ ev' = Tau
    /\ UNCHANGED <<total_slots, commready, result, loaded, awaiting, done_evt,
                   current_slot, ctlVars, wst, wplan, progressed, listenerVars,
                   adapter, hist, unitVerdict>>

\* tester_loaded = True; progressed = True
worker_post_load_loaded ==
    /\ wpc = "post_load4"
    /\ loaded' = [loaded EXCEPT ![wst] = TRUE]
    /\ progressed' = TRUE
    /\ wpc' = "scan"
    /\ ev' = Ev("loaded", wst, "none")
    /\ UNCHANGED <<total_slots, commready, result, operating, awaiting, done_evt,
                   current_slot, ctlVars, wst, wplan, listenerVars, adapter, hist,
                   unitVerdict>>

\* The tester of machine s answers whenever the engine awaits its verdict.
tester_answer(s) ==
    /\ awaiting[s]
    /\ external_test_complete(s, ScenarioVerdict(s))

FineWorker ==
    \/ worker_begin
    \/ worker_tick_stopped
    \/ worker_tick
    \/ worker_scan
    \/ worker_exit_check
    \/ worker_verdict
    \/ worker_post_unload
    \/ worker_post_load_await
    \/ worker_post_load_slot
    \/ worker_post_load_oper
    \/ worker_post_load_loaded
    \/ worker_finally
    \/ run_start_plan
    \/ run_start_error
    \/ run_poll_fault
    \/ run_poll_done
    \/ run_poll_timeout
    \/ run_poll_stop

FineNext ==
    \/ FineWorker
    \/ start_seq_worker(NoArg)
    \/ stop
    \/ Reset
    \/ on_backend_stopped
    \/ \E s \in Stations : tester_answer(s)
    \/ \E s \in Stations : etc_set_oper(s)

FineSpec == Init /\ [][FineNext]_vars

---------------------------------------------------------------------------
(* The operator who also pauses and resumes; the worker's thread is        *)
(* scheduled fairly, nothing else is.                                      *)

PauseNext ==
    \/ Worker
    \/ start_seq_worker(NoArg)
    \/ stop
    \/ pause
    \/ resume
    \/ Reset
    \/ on_backend_stopped
    \/ \E s \in Stations : tester_reply(s)
    \/ \E s \in Stations : etc_set_oper(s)

PauseSpec ==
    /\ Init
    /\ [][PauseNext]_vars
    /\ WF_vars(Worker)

---------------------------------------------------------------------------
(* The listener threads and the probe step by step, with ports that open   *)
(* and testers that take the ping: a listener sets its handle once it has  *)
(* opened its port and clears it when it ends, and _test_comms reads the   *)
(* handles. Elsewhere the handles are not followed and the probe's outcome *)
(* is any (worker_begin).                                                  *)

\* ser = serial.Serial(...); self._serial1_handle = ser
listener_open(s) ==
    /\ serial_th[s] \in {"init", "up", "halting"}
    /\ ~handle[s]
    /\ handle' = [handle EXCEPT ![s] = TRUE]
    /\ ev' = Tau
    /\ UNCHANGED <<total_slots, stationVars, ctlVars, workerVars, lpc, serial_th,
                   adapter, hist, unitVerdict>>

\* A listener that has opened its port leaves its loop.
listener_close(s) ==
    /\ handle[s]
    /\ listener_exit(s)

\* Thread entry: _test_comms() pings through the handles it finds.
worker_probe ==
    /\ wpc = "begin"
    /\ commready' = [s \in Stations |-> handle[s]]
    /\ wpc' = "tick"
    /\ ev' = Ev("probe", 0, "none")
    /\ UNCHANGED <<total_slots, result, operating, loaded, awaiting, done_evt,
                   current_slot, ctlVars, wst, wplan, progressed, listenerVars,
                   adapter, hist, unitVerdict>>

ProbeWorker ==
    \/ worker_probe
    \/ worker_tick_stopped
    \/ worker_tick
    \/ worker_scan
    \/ worker_exit_check
    \/ worker_verdict
    \/ worker_post_unload
    \/ worker_post_load_await
    \/ worker_post_load
    \/ worker_finally
    \/ run_start_plan
    \/ run_start_error
    \/ run_poll_fault
    \/ run_poll_done
    \/ run_poll_timeout
    \/ run_poll_stop

ProbeNext ==
    \/ ProbeWorker
    \/ start_seq_worker(NoArg)
    \/ stop
    \/ on_backend_stopped
    \/ \E s \in Stations : tester_reply(s)
    \/ \E s \in Stations : etc_set_oper(s)
    \/ \E s \in Stations : listener_open(s)
    \/ \E s \in Stations : listener_close(s)

ProbeSpec == Init /\ [][ProbeNext]_vars

---------------------------------------------------------------------------
(* Properties.                                                             *)

\* A stored verdict that is neither PASS nor FAIL.
InvalidStored(s) == result[s].isStr /\ result[s].s \notin {PASS, FAIL}

\* The i-th plan of one machine's cycle: pick(k), close, open, place.
CyclePlan(i) ==
    CASE (i - 1) % 4 = 0 -> <<"pick", ((i - 1) \div 4) + 1>>
      [] (i - 1) % 4 = 1 -> <<"close", 0>>
      [] (i - 1) % 4 = 2 -> <<"open", 0>>
      [] (i - 1) % 4 = 3 -> <<"place", 0>>

AllDone == \A s \in Stations : MachineDone(s)

\* C1. Stale-discard: a call of external_test_complete for a machine whose
\* awaiting_result is False changes no field of any machine (stored verdict,
\* operating, awaiting, done event), leaves nothing pending in the listener,
\* is reported as ignored and leaves the machine's unload guard as it was.
StaleVerdictIgnored ==
    [][\A s \in Stations : \A t \in Tokens :
          (~awaiting[s] /\ external_test_complete(s, t)) =>
              /\ UNCHANGED <<stationVars, ctlVars, workerVars, listenerVars,
                             adapter, hist, unitVerdict>>
              /\ ev'.op = "ignored"
              /\ UnloadGuard(s)' = UnloadGuard(s)]_vars

\* C1, its case: a second verdict arrives for a loaded machine whose first
\* verdict is stored and not yet consumed, and is ignored.
StaleVerdictSeen ==
    /\ ev.op = "ignored"
    /\ wpc \notin {"off", "begin", "finally"}
    /\ loaded[ev.st]
    /\ result[ev.st].isStr
    /\ ~awaiting[ev.st]

\* C2. No plan is requested from the adapter while the stop flag of the
\* run is set.
NoPlanAfterStop == (ev.op = "start_plan") => ~stop_flag

\* C3. No plan is requested for a machine whose stored verdict is neither
\* PASS nor FAIL.
NoPlanAfterInvalidVerdict ==
    \A s \in Stations : InvalidStored(s) => ~(ev.op = "start_plan" /\ ev.st = s)

\* C4. Right after the operator's reset() every field of every machine has
\* its construction-time value, and the stop and pause flags are False.
ResetRestoresDefaults ==
    (ev.op = "reset") =>
        /\ \A s \in Stations :
              /\ current_slot[s] = 1
              /\ ~loaded[s]
              /\ ~operating[s]
              /\ ~awaiting[s]
              /\ result[s] = None
              /\ ~done_evt[s]
        /\ ~stop_flag
        /\ ~user_pause

NoPlanWhilePaused == (ev.op = "start_plan") => ~(user_pause /\ ~stop_flag)

\* C7. The plans requested for one machine in a run are a prefix of pick(1),
\* close, open, place, pick(2), ...; an open is requested only when a verdict
\* was accepted after the unit's close completed; and a run over a tray of
\* one that ends by itself requested exactly pick(1), close, open, place for
\* the machine and leaves it not loaded.
PlanOrder ==
    \A s \in Stations :
        /\ \A i \in 1..Len(hist[s]) : hist[s][i] = CyclePlan(i)
        /\ (ev.op = "start_plan" /\ ev.st = s /\ ev.kind = "open") => unitVerdict[s]
        /\ (ev.op = "all_done" /\ total_slots[s] = 1) =>
              /\ hist[s] = <<CyclePlan(1), CyclePlan(2), CyclePlan(3), CyclePlan(4)>>
              /\ ~loaded[s]

EmptyTrayNoPlans ==
    /\ [](\A s \in Stations : total_slots[s] = 0 => hist[s] = <<>>)
    /\ ((wpc = "begin" /\ \A s \in Stations : total_slots[s] = 0)
           ~> (wpc = "finally" /\ ev.op = "all_done" /\ AllDone
                 /\ \A s \in Stations : hist[s] = <<>>))

\* C9, its case: a run over two empty trays, machine 1 not answering the
\* ping, has just ended by itself.
EmptyRunDone ==
    /\ wpc = "finally"
    /\ ev.op = "all_done"
    /\ \A s \in Stations : total_slots[s] = 0
    /\ ~commready[1]
    /\ commready[2]

StopEndsVerdictWait ==
    /\ ((stop_flag /\ wpc \in {"tick", "scan"}
           /\ \E s \in Stations : loaded[s] /\ operating[s])
          ~> (wpc \in {"finally", "off"}))
    /\ [][(stop_flag /\ wpc = "tick") => wpc' \in {"tick", "finally"}]_vars

\* C11, its case: the worker has just left the loop at its stop check while
\* a machine was loaded, under test and awaiting its verdict.
StoppedWhileTesting ==
    /\ ev.op = "stop_seen"
    /\ wpc = "finally"
    /\ \E s \in Stations : loaded[s] /\ operating[s] /\ awaiting[s] /\ ~result[s].isStr

\* C12. While a stop is requested, a pass of the wait loop can return
\* without the deadline having passed and whatever the adapter reported, it
\* returns False (the worker heads for its exit), and it does return.
StopEndsPlanWait ==
    /\ []((stop_flag /\ wpc = "poll") =>
            ENABLED (run_poll_fault \/ run_poll_done \/ run_poll_stop))
    /\ [][(stop_flag /\ wpc = "poll") => wpc' \in {"poll", "finally"}]_vars
    /\ ((stop_flag /\ wpc = "poll") ~> (wpc = "finally"))

\* C12, its case: the wait loop has just returned False on a stop while
\* the adapter still executes the plan.
StoppedWhilePolling ==
    /\ wpc = "finally"
    /\ stop_flag
    /\ ev.op \in {"plan_fault", "plan_stopped"}
    /\ adapter = "executing"

\* What stop() leaves behind it: the flag and both events set, and no
\* listener left running without its halt event set.
Stopped ==
    /\ stop_flag /\ plan_done_evt /\ fault_evt
    /\ \A s \in Stations : serial_th[s] # "up"

\* The engine's state: every variable but the trace label ev.
engine == <<total_slots, stationVars, ctlVars, workerVars, listenerVars, adapter,
            hist, unitVerdict>>

\* C13: stop() is idempotent and pause() is a no-op when paused. Every call
\* of stop() ends in a state where the flag and both events are set and no
\* listener runs unhalted, and a call of stop() made in such a state changes
\* nothing of the engine, so a second stop() in a row leaves what the first
\* left; a call of pause() made while paused changes nothing of the engine.
StopIdempotent ==
    /\ [][stop => Stopped']_vars
    /\ [][(Stopped /\ stop) => UNCHANGED engine]_vars
    /\ [][(user_pause /\ pause) => UNCHANGED engine]_vars

\* stop() was called while a plan was executing and a listener was up, the
\* operator had paused, and the worker has not looked yet: a second stop()
\* and a second pause() are about to be possible.
StoppedAndPaused ==
    /\ Stopped /\ user_pause
    /\ wpc = "poll" /\ adapter = "executing"
    /\ \E s \in Stations : serial_th[s] = "halting"

\* The labels of the three False returns of _run_micro_plan that a stop need
\* not have caused: fault event, deadline, start_plan raising.
FailureOps == {"plan_fault", "plan_timeout", "start_error"}

VerdictWaitEnds ==
    \A s \in Stations :
        (wpc = "tick" /\ loaded[s] /\ operating[s] /\ ~result[s].isStr)
            ~> (wpc \in {"finally", "off"} \/ result[s].isStr \/ ~operating[s])

\* C17: the adapter is never asked for a plan while a plan requested
\* earlier is still executing (neither completed nor stopped).
OnePlanAtATime ==
    [][(wpc = "run" /\ ev'.op = "start_plan") => adapter # "executing"]_vars

\* The labels of the steps by which the worker leaves its loop.
ExitOps == {"stop_seen", "all_done", "invalid", "plan_fault", "plan_stopped",
            "plan_timeout", "start_error"}

\* C18: a station that is not comm-ready is skipped. During a run no plan is
\* requested for it; no step of the worker changes its loaded, operating or
\* current_slot field; and each step by which the worker leaves its loop is
\* a stop seen, the natural end, or an invalid verdict or failed plan of a
\* station that is comm-ready.
CommDownSkipped ==
    /\ [](\A s \in Stations :
            (wpc \notin {"off", "begin"} /\ ~commready[s]) => hist[s] = <<>>)
    /\ [][(ev'.op = "start_plan") => commready[ev'.st]]_vars
    /\ [][(wpc # "off" /\ wpc' # wpc) =>
            \A s \in Stations : ~commready[s] =>
                /\ loaded'[s] = loaded[s]
                /\ operating'[s] = operating[s]
                /\ current_slot'[s] = current_slot[s]]_vars
    /\ [][(wpc # "finally" /\ wpc' = "finally") =>
            /\ ev'.op \in ExitOps
            /\ ev'.st \in Stations => commready[ev'.st]]_vars

\* Machine 1 is not comm-ready and has a slot to process, machine 2 has been
\* loaded in this run, and the worker has gone through a pass since without
\* finding anything to do.
CommDownWhileOtherRuns ==
    /\ ~commready[1] /\ total_slots[1] = 1
    /\ commready[2] /\ loaded[2] /\ Len(hist[2]) = 2
    /\ wpc = "tick" /\ ~progressed

\* C19: reset() does nothing while the worker is alive. A call of reset()
\* from the control surface made before the worker has exited leaves the
\* station fields, the stop flag and the pause flag as they were.
ResetRefusedWhileRunning ==
    [][(wpc # "off" /\ ev'.op = "reset") =>
          UNCHANGED <<stationVars, stop_flag, user_pause>>]_vars

\* C20: a listener that runs keeps running. No step, whether stop(), the
\* worker's exit or reset(), sets the halt event of a running listener.
ListenerOutlivesRuns ==
    [][\A s \in Stations : serial_th[s] = "up" => serial_th'[s] = "up"]_vars

\* C21: a start while the worker is alive is a no-op. A call of
\* start_seq_worker made while the worker thread is alive changes neither
\* the tray sizes nor any other variable of the engine.
StartWhileRunningNoOp ==
    [][(wpc # "off" /\ \E n \in CfgArgs : start_seq_worker(n)) =>
          UNCHANGED engine]_vars

\* C22: the fault takes precedence over the completion. At a poll with both
\* the fault event and the done event set, whichever was set first, the
\* return with True is not possible; the worker's step from such a poll is
\* the return on the fault, to the worker's exit; and a return with True is
\* only ever taken with the fault event clear.
FaultPrecedence ==
    /\ []((wpc = "poll" /\ fault_evt /\ plan_done_evt) => ~ENABLED run_poll_done)
    /\ [][(wpc = "poll" /\ fault_evt /\ plan_done_evt /\ wpc' # wpc) =>
            (ev'.op = "plan_fault" /\ wpc' = "finally")]_vars
    /\ [][(wpc = "poll" /\ ev'.op = "plan_finished") => ~fault_evt]_vars

\* The plan returned on a fault although the adapter had reported its
\* completion as well, and nobody had called stop().
FaultedThoughCompleted ==
    /\ ev.op = "plan_fault" /\ wpc = "finally"
    /\ fault_evt /\ plan_done_evt /\ adapter = "idle" /\ ~stop_flag

\* C23: no station update past a stop. A completion polled with the stop
\* flag set is not a success, and a step of the worker inside its loop taken
\* with the stop flag set leaves loaded, operating, awaiting, current_slot
\* and result as they were.
NoUpdateAfterStop ==
    /\ [][(wpc = "poll" /\ stop_flag) => ev'.op # "plan_finished"]_vars
    /\ [][(stop_flag /\ wpc \notin {"off", "begin", "finally"} /\ wpc' # wpc) =>
            UNCHANGED <<loaded, operating, awaiting, current_slot, result>>]_vars

\* The text of a token, trimmed and in upper case ("" for None).
Folded(t) == Upper(Strip(IF t.isStr THEN t.s ELSE <<>>))

\* An invalid verdict selects no place plan: the worker's step from the
\* verdict test goes to a place plan only with PASS or FAIL stored, and to
\* the worker's exit otherwise.
InvalidSelectsNothing ==
    [][(wpc = "verdict" /\ wpc' # wpc) =>
          IF result[wst].isStr /\ result[wst].s \in {PASS, FAIL}
          THEN wpc' = "run" /\ wplan'.kind \in {"place_pass", "place_fail"}
          ELSE wpc' = "finally" /\ ev'.op = "invalid"]_vars

ClearedTogetherOnce ==
    /\ [][\A s \in Stations : (lpc[s] = "set_oper" /\ lpc'[s] = "idle") =>
            (~operating'[s] /\ ~awaiting'[s])]_vars
    /\ [][\A s \in Stations : (~operating[s] /\ operating'[s]) => awaiting[s]]_vars
    /\ [][\A s \in Stations :
            (operating[s] /\ ~operating'[s] /\ wpc = "tick" /\ wpc' = "scan") =>
                lpc[s] = "set_oper"]_vars
    /\ [](wpc = "tick" => \A s \in Stations : awaiting[s] => operating[s])

OpenOnlyWhenDelivered ==
    [][(wpc = "run" /\ ev'.op = "start_plan" /\ ev'.kind = "open") =>
          /\ loaded[ev'.st]
          /\ ~operating[ev'.st]
          /\ ~awaiting[ev'.st]
          /\ result[ev'.st].isStr]_vars

\* The two place plans.
PlaceKinds == {"place_pass", "place_fail"}

\* The place plan is chosen by the stored verdict, after the open plan. The
\* verdict test is reached only by the True return of the machine's open
\* plan; it chooses the machine's place-on-pass plan exactly when PASS is
\* stored and its place-on-fail plan exactly when FAIL is stored; a place
\* plan is requested only for the machine whose open plan completed; and
\* the unload bookkeeping is reached only by the True return of that
\* machine's place plan.
PlaceSelection ==
    /\ [][(wpc # "verdict" /\ wpc' = "verdict") =>
            (ev' = Ev("plan_finished", wst, "open") /\ wst' = wst)]_vars
    /\ [][(wpc = "verdict" /\ wpc' = "run") =>
            /\ wplan'.st = wst /\ wplan'.kind \in PlaceKinds
            /\ wplan'.kind = "place_pass" <=> result[wst] = Str(PASS)
            /\ wplan'.kind = "place_fail" <=> result[wst] = Str(FAIL)]_vars
    /\ [][(ev'.op = "start_plan" /\ ev'.kind \in PlaceKinds) =>
            (wpc = "run" /\ ev'.st = wst /\ ev'.kind = wplan.kind)]_vars
    /\ [][(wpc # "post_unload" /\ wpc' = "post_unload") =>
            (ev'.op = "plan_finished" /\ ev'.kind \in PlaceKinds /\ ev'.st = wst
               /\ wst' = wst)]_vars

\* A step that takes a machine from loaded to not loaded, or that clears its
\* stored verdict.
Unloads(s) ==
    \/ loaded[s] /\ ~loaded'[s]
    \/ result[s].isStr /\ ~result'[s].isStr

Loads(s) ==
    \/ ~loaded[s] /\ loaded'[s]
    \/ ~operating[s] /\ operating'[s]
    \/ ~awaiting[s] /\ awaiting'[s]
    \/ current_slot'[s] # current_slot[s]

\* C29: the load bookkeeping follows a completed pick and a completed close.
\* The close plan is requested only on the True return of the machine's
\* pick plan, which was for current_slot; the bookkeeping is reached only on
\* the True return of the close plan; it sets awaiting, then operating and
\* loaded, and adds one to current_slot; inside the loop no other step of
\* the worker sets any of the three flags or changes current_slot; and the
\* step in which a plan fails changes no station field.
LoadAfterPickAndClose ==
    /\ [][(wplan.kind # "close" /\ wplan'.kind = "close") =>
            (wpc = "poll" /\ ev' = Ev("plan_finished", wst, "pick")
               /\ wplan' = FixedPlan(wst, "close") /\ wst' = wst)]_vars
    /\ [][(ev'.op = "start_plan" /\ ev'.kind = "close") =>
            (wplan = FixedPlan(wst, "close") /\ ev'.st = wst
               /\ Len(hist[wst]) >= 1
               /\ hist[wst][Len(hist[wst])] = <<"pick", current_slot[wst]>>)]_vars
    /\ [][(ev'.op = "start_plan" /\ ev'.kind = "pick") =>
            (wplan = PickPlan(wst, current_slot[wst]) /\ ev'.st = wst)]_vars
    /\ [][(wpc # "post_load" /\ wpc' = "post_load") =>
            (ev' = Ev("plan_finished", wst, "close") /\ wst' = wst
               /\ Len(hist[wst]) >= 2
               /\ hist[wst][Len(hist[wst]) - 1] = <<"pick", current_slot[wst]>>
               /\ hist[wst][Len(hist[wst])] = <<"close", 0>>)]_vars
    /\ [][(wpc = "post_load" /\ wpc' # wpc) =>
            (awaiting'[wst] /\ wpc' = "post_load2")]_vars
    /\ [][(wpc = "post_load2" /\ wpc' # wpc) =>
            /\ loaded'[wst] /\ operating'[wst]
            /\ current_slot'[wst] = current_slot[wst] + 1]_vars
    /\ [][\A s \in Stations :
            (wpc \notin {"off", "finally"} /\ wpc' # wpc /\ Loads(s)) =>
                (wpc \in {"post_load", "post_load2"} /\ wst = s)]_vars
    /\ [][(wpc \in {"run", "poll"} /\ wpc' = "finally") => UNCHANGED stationVars]_vars

\* Machine 1 has just been loaded from slot 1: pick and close were its only
\* plans, and the four fields have their new values.
LoadedFromSlotOne ==
    /\ ev = Ev("loaded", 1, "none")
    /\ hist[1] = << <<"pick", 1>>, <<"close", 0>> >>
    /\ loaded[1] /\ operating[1] /\ awaiting[1] /\ current_slot[1] = 2

\* The slots of the pick plans requested for machine s in this run, in the
\* order of the requests.
PickedSlots(s) ==
    LET picks == SelectSeq(hist[s], LAMBDA e : e[1] = "pick")
    IN  [i \in 1..Len(picks) |-> picks[i][2]]

\* C30: the slot counter stays within its bounds. In every state
\* 1 <= current_slot <= total_slots + 1; inside a run current_slot never
\* decreases; and the slots picked in a run are within 1..total_slots and
\* strictly increasing.
SlotBounds ==
    /\ [](\A s \in Stations :
            /\ 1 <= current_slot[s] /\ current_slot[s] <= total_slots[s] + 1
            /\ \A i \in 1..Len(PickedSlots(s)) :
                  /\ 1 <= PickedSlots(s)[i] /\ PickedSlots(s)[i] <= total_slots[s]
                  /\ \A j \in 1..(i - 1) : PickedSlots(s)[j] < PickedSlots(s)[i])
    /\ [][(wpc \notin {"off", "finally"}) =>
            \A s \in Stations : current_slot'[s] >= current_slot[s]]_vars

\* C31: the station invariant. In every state a machine that is operating
\* is loaded, and a machine that is loaded and not operating has a verdict
\* stored.
StationInvariant ==
    \A s \in Stations :
        /\ operating[s] => loaded[s]
        /\ (loaded[s] /\ ~operating[s]) => result[s].isStr

\* C32: stop preempts pause. A worker held in the pause wait with the stop
\* flag set can leave the wait whether or not it is still paused, its next
\* step goes to its exit with no plan requested and no station field
\* changed, and it does get there although resume() may never be called.
StopPreemptsPause ==
    /\ []((wpc = "tick" /\ stop_flag /\ user_pause) => ENABLED worker_tick_stopped)
    /\ [][(wpc = "tick" /\ stop_flag /\ wpc' # "tick") =>
             /\ wpc' = "finally"
             /\ ev'.op = "stop_seen"
             /\ hist' = hist
             /\ adapter' = adapter
             /\ stationVars' = stationVars
             /\ user_pause' = user_pause]_vars
    /\ (wpc = "tick" /\ stop_flag /\ user_pause) ~> (wpc \in {"finally", "off"} /\ ev.op # "start_plan")

\* The worker has left the pause wait on the stop flag, still paused, with
\* a unit in machine 1.
StoppedWhilePaused ==
    /\ wpc = "finally" /\ ev.op = "stop_seen"
    /\ stop_flag /\ user_pause
    /\ loaded[1]

\* C33: fixed scan order. The block a pass runs is the first whose guard
\* holds in the order machine 1 unload, machine 1 load, machine 2 unload,
\* machine 2 load: a pass with an eligible block runs one; machine 1's
\* unload runs when eligible, machine 1's load when eligible and its unload
\* is not, and a block of machine 2 runs only if neither block of machine 1
\* is eligible, its load only if its unload is not.
FixedScanOrder ==
    [][(wpc = "scan" /\ wpc' # "scan") =>
          /\ (\E s \in Stations : UnloadGuard(s) \/ LoadGuard(s)) => wpc' = "run"
          /\ (wpc' = "run") =>
                /\ wst' = wplan'.st
                /\ UnloadGuard(1) => wplan' = FixedPlan(1, "open")
                /\ (~UnloadGuard(1) /\ LoadGuard(1)) => wplan' = PickPlan(1, current_slot[1])
                /\ (wplan'.st = 2) => (~UnloadGuard(1) /\ ~LoadGuard(1))
                /\ (wplan'.st = 2 /\ UnloadGuard(2)) => wplan' = FixedPlan(2, "open")
                /\ (wplan'.st = 2 /\ ~UnloadGuard(2)) =>
                      (LoadGuard(2) /\ wplan' = PickPlan(2, current_slot[2]))]_vars

\* The pass chose machine 1's unload while machine 2 was eligible for a
\* load.
UnloadOneBeforeLoadTwo ==
    /\ wpc = "run" /\ wst = 1 /\ wplan = FixedPlan(1, "open")
    /\ LoadGuard(2)

\* Machine s holds a unit under test and its verdict is awaited.
Testing(s) == loaded[s] /\ operating[s] /\ awaiting[s] /\ ~done_evt[s]

\* Machine s would pass its unload or its load guard in a fresh pass.
Eligible(s) ==
    /\ commready[s]
    /\ ~operating[s]
    /\ \/ loaded[s] /\ result[s].isStr
       \/ ~loaded[s] /\ current_slot[s] <= total_slots[s]

\* C34: stations progress independently. While one machine is under test
\* and the other is eligible, the pass is not held up: the worker can begin
\* the pass and scan, the block it runs is the other machine's, and with no
\* verdict ever delivered a plan of the other machine is requested on a
\* following pass unless the run ends first.
StationsIndependent ==
    /\ \A a, b \in Stations :
          []((a # b /\ wpc = "tick" /\ ~stop_flag /\ Testing(a) /\ Eligible(b))
                => ENABLED worker_tick)
    /\ [][\A a, b \in Stations :
             (a # b /\ wpc = "scan" /\ Testing(a) /\ Eligible(b) /\ ~progressed
                /\ wpc' # "scan")
               => (wpc' = "run" /\ wst' = b /\ result' = result)]_vars
    /\ \A a, b \in Stations :
          (a # b /\ wpc = "tick" /\ ~stop_flag /\ Testing(a) /\ Eligible(b))
             ~> ((wpc = "poll" /\ wplan.st = b) \/ wpc \in {"finally", "off"})

\* A plan of machine 2 is executing while machine 1's unit is under test
\* with no verdict delivered.
LoadTwoWhileOneTests ==
    /\ wpc = "poll" /\ wplan.st = 2 /\ adapter = "executing"
    /\ Testing(1) /\ ~result[1].isStr

\* C35: no verdict is lost. A verdict submitted for a machine whose close
\* plan has returned successfully and whose load bookkeeping has not yet
\* begun is not discarded as stale.
NoVerdictLost ==
    [][(wpc = "post_load") => ~(ev'.op = "ignored" /\ ev'.st = wst)]_vars

\* C36: every unload consumes a verdict of the unit unloaded. The verdict
\* by which a place plan is chosen for a machine was accepted in this run
\* after the close plan of the unit in the machine had completed.
UnloadUsesUnitVerdict ==
    [][(wpc = "verdict" /\ wpc' = "run") => unitVerdict[wst]]_vars

\* C37: a raised fault is not forgotten. While the worker waits for a plan
\* and no stop is requested, a fault event set by the adapter's notification
\* stays set until the worker has polled it, whatever notifications are
\* delivered in between.
FaultNotForgotten ==
    [][(wpc = "poll" /\ fault_evt /\ ~stop_flag /\ wpc' = "poll") => fault_evt']_vars

\* C38: at most one worker. A worker thread begins only by a call of
\* start_seq_worker made while no worker is alive; a call made while one is
\* alive leaves the worker, its plan and the plans requested as they were;
\* and a worker is gone only by the last step of its own exit.
AtMostOneWorker ==
    /\ [][(wpc' = "begin" /\ wpc # "begin") => (wpc = "off" /\ ev'.op = "start")]_vars
    /\ [][(wpc # "off" /\ start_seq_worker(NoArg)) =>
             (workerVars' = workerVars /\ hist' = hist /\ stop_flag' = stop_flag)]_vars
    /\ [][(wpc # "off" /\ wpc' = "off") => ev'.op = "worker_exit"]_vars

\* A second worker has been started after the exit of one that left a
\* verdict awaited.
StartedAfterExit ==
    /\ wpc = "begin" /\ ev.op = "start"
    /\ \E s \in Stations : awaiting[s]

\* C39: the probe sees the listeners that start launches. With ports that
\* open and testers that take the ping, the probe of a run finds every
\* machine whose listener was launched by the start of the run comm-ready.
ProbeSeesListeners ==
    [][(wpc = "begin" /\ wpc' = "tick") =>
          \A s \in Stations : serial_th[s] = "up" => commready'[s]]_vars

\* The run has a machine that is not comm-ready and has a slot to process.
CommDownPending ==
    /\ wpc \notin {"off", "begin"}
    /\ \E s \in Stations : ~commready[s] /\ total_slots[s] >= 1

\* C40, as stated: a run with a machine that is not comm-ready and has a
\* slot to process leaves its loop only once stop() has been called.
CommDownEndsOnlyByStop ==
    [][(CommDownPending /\ wpc # "finally" /\ wpc' = "finally") => stop_flag]_vars

\* C40: a machine that is not comm-ready and has a slot to process never
\* gets a plan or is loaded during the run and stays at its first slot, so
\* it is never done; a pass in which no block is eligible goes on to the
\* next pass; and the loop is never left by the natural end or on account
\* of that machine, but only by a stop or by a failed plan or invalid
\* verdict of a comm-ready machine.
CommDownNeverDrained ==
    /\ [](\A s \in Stations :
            (wpc \notin {"off", "begin"} /\ ~commready[s] /\ total_slots[s] >= 1)
               => (current_slot[s] = 1 /\ ~loaded[s] /\ hist[s] = <<>>))
    /\ [][(CommDownPending /\ wpc = "scan" /\ wpc' \notin {"scan", "run"})
            => (wpc' = "tick" /\ ev'.op = "tau")]_vars
    /\ [][(CommDownPending /\ wpc # "finally" /\ wpc' = "finally") =>
            /\ ev'.op \in ExitOps \ {"all_done"}
            /\ (ev'.op \in {"stop_seen", "plan_stopped"}) => stop_flag
            /\ (ev'.op \notin {"stop_seen", "plan_stopped"}) =>
                  (ev'.st \in Stations /\ commready[ev'.st])]_vars

\* Machine 1 is not comm-ready and has a slot to process, machine 2 has been
\* loaded and unloaded and is done, no stop is requested, and the worker is
\* at the start of one more pass.
IdleWithOtherDone ==
    /\ ~commready[1] /\ total_slots[1] = 1
    /\ commready[2] /\ MachineDone(2) /\ Len(hist[2]) = 4
    /\ wpc = "tick" /\ ~stop_flag

====
